---------------------------- MODULE Spec2Model ----------------------------
(***************************************************************************)
(* A model of rust/src/api/password_cracker.rs: the ZIP password search.   *)
(*                                                                         *)
(* Bytes are integers 0..255, passwords and buffers are sequences of       *)
(* bytes.  An archive is a record of entries; the zip library is modelled  *)
(* by what the code observes of it (by_index_decrypt, read_to_end, crc32,  *)
(* size).  Unsigned 64-bit values of the chunk arithmetic are sequences of *)
(* four 16-bit limbs, least significant first, since TLC's integers are    *)
(* 32 bits wide.                                                           *)
(***************************************************************************)
EXTENDS Integers, Sequences, FiniteSets, TLC

\* ------------------------------------------------------------------------
\* Bounds of the model
\* ------------------------------------------------------------------------

\* Threads of the rayon pool (one per core in the program).
NumWorkers == 2

\* Progress events the reporter thread may emit in one run.
MaxReports == 1

\* ------------------------------------------------------------------------
\* Program constants
\* ------------------------------------------------------------------------

\* `local_count & 0x1FF == 0`: the found/pause poll every 512 candidates.
POLL_PERIOD == 512

\* `local_count & 0x7FF == 0`: the batch flush of the local counter.
BATCH_SIZE == 2048

\* Capacity of CompactCharset::data.
CHARSET_CAPACITY == 94

\* adaptive_chunk_size: the three chunk sizes and the two thresholds.
CHUNK_SMALL_CHARSET == 16384

CHUNK_MEDIUM_CHARSET == 8192

CHUNK_LARGE_CHARSET == 4096

SMALL_CHARSET_MAX == 16

MEDIUM_CHARSET_MAX == 48

\* ------------------------------------------------------------------------
\* Helpers on sequences
\* ------------------------------------------------------------------------

Range(s) == {s[i] : i \in DOMAIN s}

\* The bytes lo..hi as a sequence (a Rust inclusive byte range).
ByteRange(lo, hi) == [i \in 1..(hi - lo + 1) |-> lo + i - 1]

Min(a, b) == IF a <= b THEN a ELSE b

SetMin(S) == CHOOSE x \in S : \A y \in S : x <= y

\* Lexicographic order on byte sequences (Rust's Ord for String / [u8]).
RECURSIVE SeqLess(_, _)
SeqLess(a, b) ==
    IF a = <<>> THEN b # <<>>
    ELSE IF b = <<>> THEN FALSE
    ELSE IF a[1] # b[1] THEN a[1] < b[1]
    ELSE SeqLess(Tail(a), Tail(b))

\* The elements of a finite set of byte sequences in ascending order:
\* sort_unstable followed by dedup.
RECURSIVE SortedSeq(_)
SortedSeq(S) ==
    IF S = {} THEN <<>>
    ELSE LET m == CHOOSE x \in S : \A y \in S : x = y \/ SeqLess(x, y)
         IN  <<m>> \o SortedSeq(S \ {m})

\* ------------------------------------------------------------------------
\* CompactCharset
\* ------------------------------------------------------------------------

DIGITS == ByteRange(48, 57)

LOWERCASE == ByteRange(97, 122)

UPPERCASE == ByteRange(65, 90)

\* b"!@#$%^&*()-_=+[]{}|;:'\",.<>?/~`\\"
SYMBOLS ==
    << 33, 64, 35, 36, 37, 94, 38, 42, 40, 41, 45, 95, 61, 43, 91, 93,
       123, 125, 124, 59, 58, 39, 34, 44, 46, 60, 62, 63, 47, 126, 96, 92 >>

\* CompactCharset::new followed by as_slice: the enabled subsets, appended
\* in the order numbers, lowercase, uppercase, symbols.
CompactCharsetNew(cfg) ==
    (IF cfg.use_numbers THEN DIGITS ELSE <<>>)
    \o (IF cfg.use_lowercase THEN LOWERCASE ELSE <<>>)
    \o (IF cfg.use_uppercase THEN UPPERCASE ELSE <<>>)
    \o (IF cfg.use_symbols THEN SYMBOLS ELSE <<>>)

adaptive_chunk_size(charset_len) ==
    IF charset_len <= SMALL_CHARSET_MAX THEN CHUNK_SMALL_CHARSET
    ELSE IF charset_len <= MEDIUM_CHARSET_MAX THEN CHUNK_MEDIUM_CHARSET
    ELSE CHUNK_LARGE_CHARSET

\* ------------------------------------------------------------------------
\* Odometer
\* ------------------------------------------------------------------------

\* index_to_bytes: the digits of index in base |charset|, most significant
\* first, written from the last position to the first.
RECURSIVE index_to_bytes(_, _, _)
index_to_bytes(index, charset, len) ==
    IF len = 0 THEN <<>>
    ELSE index_to_bytes(index \div Len(charset), charset, len - 1)
         \o << charset[(index % Len(charset)) + 1] >>

\* charset.iter().position(|&c| c == b) over the positions lo..hi
\* (1-based), as a 0-based index, or -1 for None.
RECURSIVE PositionIn(_, _, _, _)
PositionIn(charset, b, lo, hi) ==
    IF lo > hi THEN -1
    ELSE IF lo = hi THEN (IF charset[lo] = b THEN lo - 1 ELSE -1)
    ELSE LET mid == (lo + hi) \div 2
             first == PositionIn(charset, b, lo, mid)
         IN  IF first # -1 THEN first
             ELSE PositionIn(charset, b, mid + 1, hi)

\* charset.iter().position(|&c| c == b).unwrap_or(0)
Position(charset, b) ==
    LET p == PositionIn(charset, b, 1, Len(charset))
    IN  IF p = -1 THEN 0 ELSE p

\* increment_password, scanning from position i (1-based) leftwards.
RECURSIVE IncrementFrom(_, _, _)
IncrementFrom(buf, charset, i) ==
    IF i = 0 THEN buf
    ELSE IF buf[i] = charset[Len(charset)]
         THEN IncrementFrom([buf EXCEPT ![i] = charset[1]], charset, i - 1)
         ELSE [buf EXCEPT ![i] = charset[Position(charset, buf[i]) + 2]]

\* increment_password without the carry: the last position advances and
\* wraps, the positions before it stay.
IncrementNoCarry(buf, charset) ==
    IF buf = << >> THEN buf
    ELSE [buf EXCEPT ![Len(buf)] =
             IF @ = charset[Len(charset)] THEN charset[1]
             ELSE charset[Position(charset, @) + 2]]

increment_password(buf, charset) == IncrementFrom(buf, charset, Len(buf))


\* ------------------------------------------------------------------------
\* u64 arithmetic on four 16-bit limbs, least significant first
\* ------------------------------------------------------------------------

LIMB == 256 * 256

U64_MAX == << LIMB - 1, LIMB - 1, LIMB - 1, LIMB - 1 >>

\* A natural number below 2^31 as a u64.
U64FromNat(n) == << n % LIMB, n \div LIMB, 0, 0 >>

U64Fits(a) == a[3] = 0 /\ a[4] = 0 /\ a[2] < LIMB \div 2

\* The value of a u64 below 2^31.
U64ToNat(a) == a[1] + a[2] * LIMB

\* a * m for a small factor m (m <= 2^14): the low 64 bits and whether the
\* product exceeded them.
U64MulSmall(a, m) ==
    LET p1 == a[1] * m
        p2 == a[2] * m + (p1 \div LIMB)
        p3 == a[3] * m + (p2 \div LIMB)
        p4 == a[4] * m + (p3 \div LIMB)
    IN  [ val |-> << p1 % LIMB, p2 % LIMB, p3 % LIMB, p4 % LIMB >>,
          overflow |-> p4 \div LIMB > 0 ]

\* a + b: the low 64 bits and the carry out.
U64Add(a, b) ==
    LET s1 == a[1] + b[1]
        s2 == a[2] + b[2] + (s1 \div LIMB)
        s3 == a[3] + b[3] + (s2 \div LIMB)
        s4 == a[4] + b[4] + (s3 \div LIMB)
    IN  [ val |-> << s1 % LIMB, s2 % LIMB, s3 % LIMB, s4 % LIMB >>,
          overflow |-> s4 \div LIMB > 0 ]

\* a / d for a small divisor d (d <= 2^14): schoolbook division.
U64DivSmall(a, d) ==
    LET q4 == a[4] \div d
        r4 == a[4] % d
        q3 == (r4 * LIMB + a[3]) \div d
        r3 == (r4 * LIMB + a[3]) % d
        q2 == (r3 * LIMB + a[2]) \div d
        r2 == (r3 * LIMB + a[2]) % d
        q1 == (r2 * LIMB + a[1]) \div d
    IN  << q1, q2, q3, q4 >>

\* u64::checked_pow, with base <= 94: None is [overflow |-> TRUE].
RECURSIVE U64CheckedPow(_, _)
U64CheckedPow(base, exp) ==
    IF exp = 0 THEN [val |-> U64FromNat(1), overflow |-> FALSE]
    ELSE LET r == U64CheckedPow(base, exp - 1)
             m == U64MulSmall(r.val, base)
         IN  [val |-> m.val, overflow |-> r.overflow \/ m.overflow]

\* u64::saturating_pow.
saturating_pow(base, exp) ==
    LET r == U64CheckedPow(base, exp)
    IN  IF r.overflow THEN U64_MAX ELSE r.val

\* The `+` of u64 operands: with overflow checks (a debug build) an
\* overflowing sum panics, without them (a release build) it wraps.
U64Plus(a, b, checks) ==
    LET s == U64Add(a, b)
    IN  [val |-> s.val, panic |-> s.overflow /\ checks]

\* num_chunks = (total + chunk_size - 1) / chunk_size, evaluated left to
\* right as the program does.
NumChunks(total, size, checks) ==
    LET s == U64Plus(total, U64FromNat(size), checks)
        \* s.val - 1: s.val >= size > 0 unless the sum wrapped
        \* to a value below size, which is still >= 1 here
        \* because total <= 2^64 - 1.
        m == U64Add(s.val, << LIMB - 1, LIMB - 1, LIMB - 1, LIMB - 1 >>).val
    IN  [val |-> U64DivSmall(m, size), panic |-> s.panic]


\* ------------------------------------------------------------------------
\* The zip library, as the program observes it
\* ------------------------------------------------------------------------
\* file_bytes is a record [parses, aes_crypto, entries]: whether the bytes
\* parse as an archive, whether the zip crate of the build has its
\* aes-crypto feature, and the entries.  An entry is a record
\*   encrypted : the entry's encryption bit
\*   aes       : the entry is AES-encrypted (compression method 99)
\*   size, crc : the declared uncompressed size and CRC32
\*   plain     : the content of an entry that is not encrypted
\*   keys      : for an encrypted entry, a function from the passwords
\*               that pass the one-byte ZipCrypto check to what reading
\*               the entry under that password gives, [err, data].
\* The empty password is a password like any other: it passes the check
\* byte of about one encrypted entry in 256.

EMPTY_PASSWORD == <<>>

\* crc32fast::hash, abstracted to a 16-bit rolling checksum.
RECURSIVE Crc32From(_, _, _)
Crc32From(buf, i, h) ==
    IF i > Len(buf) THEN h
    ELSE Crc32From(buf, i + 1, (h * 31 + buf[i] + 1) % LIMB)

crc32fast_hash(buf) == Crc32From(buf, 1, 0)

\* ZipArchive::new(reader).is_ok()
ZipArchiveNewOk(zip_data) == zip_data.parses

\* archive.len()
ArchiveLen(zip_data) == Len(zip_data.entries)

\* archive.by_index_decrypt(i, password), i counted from 0:
\*   Err(_)      -> [tag |-> "Err"]  (an index out of range, or an AES
\*                  entry when the crate cannot decrypt AES)
\*   Ok(Err(_))  -> [tag |-> "InvalidPassword"]
\*   Ok(Ok(file))-> [tag |-> "File", crc, size, read]
by_index_decrypt(zip_data, i, password) ==
    IF i < 0 \/ i >= ArchiveLen(zip_data) THEN [tag |-> "Err"]
    ELSE LET e == zip_data.entries[i + 1]
         IN  IF ~e.encrypted
             THEN [tag |-> "File", crc |-> e.crc, size |-> e.size,
                   read |-> [err |-> FALSE, data |-> e.plain]]
             ELSE IF e.aes /\ ~zip_data.aes_crypto
             THEN [tag |-> "Err"]
             ELSE IF password \in DOMAIN e.keys
             THEN [tag |-> "File", crc |-> e.crc, size |-> e.size,
                   read |-> e.keys[password]]
             ELSE [tag |-> "InvalidPassword"]

\* ------------------------------------------------------------------------
\* The candidate tests
\* ------------------------------------------------------------------------

\* same_count as f64 / bytes_read as f64 > 0.95, on integers.
MostlySameByte(buf) ==
    LET same_count == Cardinality({k \in DOMAIN buf : buf[k] = buf[1]})
    IN  20 * same_count > 19 * Len(buf)

\* The number of distinct bytes among the first min(bytes_read, 1000).
UniqueBytes(buf) ==
    Cardinality({buf[k] : k \in 1..Min(Len(buf), 1000)})

\* The "ADDITIONAL VALIDATION" of try_unlock_ultra_safe: TRUE when the
\* content is rejected as looking like garbage.
LooksLikeGarbage(buf) ==
    /\ Len(buf) > 0
    /\ \/ Len(buf) > 100 /\ MostlySameByte(buf)
       \/ Len(buf) > 10 /\ UniqueBytes(buf) < 5

\* The body of the loop of try_unlock_ultra_safe for entry i: "skip" (the
\* entry is not seen as encrypted), "fail" (return false) or "ok".
UltraSafeEntry(zip_data, i, password) ==
    LET is_encrypted ==
            by_index_decrypt(zip_data, i, EMPTY_PASSWORD).tag = "InvalidPassword"
        file == by_index_decrypt(zip_data, i, password)
    IN  IF ~is_encrypted THEN "skip"
        ELSE IF file.tag # "File" THEN "fail"
        ELSE IF file.read.err THEN "fail"
        ELSE IF Len(file.read.data) # file.size THEN "fail"
        ELSE IF crc32fast_hash(file.read.data) # file.crc THEN "fail"
        ELSE IF LooksLikeGarbage(file.read.data) THEN "fail"
        ELSE "ok"

RECURSIVE UltraSafeFrom(_, _, _, _, _)
UltraSafeFrom(zip_data, password, i, decrypted_count, total_encrypted) ==
    IF i >= ArchiveLen(zip_data)
    THEN total_encrypted # 0 /\ decrypted_count = total_encrypted
    ELSE LET r == UltraSafeEntry(zip_data, i, password)
         IN  IF r = "skip"
             THEN UltraSafeFrom(zip_data, password, i + 1,
                                decrypted_count, total_encrypted)
             ELSE IF r = "fail" THEN FALSE
             ELSE UltraSafeFrom(zip_data, password, i + 1,
                                decrypted_count + 1, total_encrypted + 1)

try_unlock_ultra_safe(zip_data, password) ==
    /\ ZipArchiveNewOk(zip_data)
    /\ UltraSafeFrom(zip_data, password, 0, 0, 0)

\* The closure of dictionary_attack applied to one candidate: Some(pwd)
\* exactly when the target entry decrypts, reads, and matches size and CRC.
DictionaryTest(zip_data, target, pwd) ==
    LET file == by_index_decrypt(zip_data, target, pwd)
    IN  /\ file.tag = "File"
        /\ ~file.read.err
        /\ Len(file.read.data) = file.size
        /\ crc32fast_hash(file.read.data) = file.crc

\* find_first_encrypted_entry: the first index whose decryption with the
\* empty password gives Ok(Err(_)), or -1 for None.
find_first_encrypted_entry(zip_data, archive_len) ==
    LET enc == {i \in 0..(archive_len - 1) :
                   by_index_decrypt(zip_data, i, EMPTY_PASSWORD).tag
                       = "InvalidPassword"}
    IN  IF enc = {} THEN -1 ELSE SetMin(enc)

\* ------------------------------------------------------------------------
\* Dictionary candidates
\* ------------------------------------------------------------------------

ToAsciiUpper(b) == IF b >= 97 /\ b <= 122 THEN b - 32 ELSE b

\* word.to_uppercase(), for ASCII words.
to_uppercase(word) == [i \in DOMAIN word |-> ToAsciiUpper(word[i])]

\* The first byte made upper case (cap.get_mut(0..1)).
Capitalize(word) == [i \in DOMAIN word |-> IF i = 1 THEN ToAsciiUpper(word[i]) ELSE word[i]]

\* "1", "12", "123", "!", "1!", "0", "00", "01", "69", "007"
SUFFIXES ==
    << <<49>>, <<49, 50>>, <<49, 50, 51>>, <<33>>, <<49, 33>>,
       <<48>>, <<48, 48>>, <<48, 49>>, <<54, 57>>, <<48, 48, 55>> >>

\* a/A -> @, e/E -> 3, o/O -> 0, i/I -> 1, s/S -> $
LeetByte(b) ==
    CASE b = 97 \/ b = 65 -> 64
      [] b = 101 \/ b = 69 -> 51
      [] b = 111 \/ b = 79 -> 48
      [] b = 105 \/ b = 73 -> 49
      [] b = 115 \/ b = 83 -> 36
      [] OTHER -> b

Leet(word) == [i \in DOMAIN word |-> LeetByte(word[i])]

generate_mutations(word) ==
    << word, to_uppercase(word) >>
    \o (IF word # <<>> THEN << Capitalize(word) >> ELSE <<>>)
    \o [k \in DOMAIN SUFFIXES |-> word \o SUFFIXES[k]]
    \o (IF Leet(word) # word THEN << Leet(word) >> ELSE <<>>)

\* The embedded wordlist: the file password_list.txt is data of the build;
\* one line, "password", stands for it.
EMBEDDED_WORDLIST == << <<112, 97, 115, 115, 119, 111, 114, 100>> >>

RECURSIVE MutationsOfAll(_)
MutationsOfAll(words) ==
    IF words = <<>> THEN <<>>
    ELSE generate_mutations(Head(words)) \o MutationsOfAll(Tail(words))

\* The candidate list of dictionary_attack: the mutations of the wordlist
\* and of the custom words, sorted and deduplicated.
DictionaryCandidates(custom_words) ==
    SortedSeq(Range(MutationsOfAll(EMBEDDED_WORDLIST)
                    \o MutationsOfAll(custom_words)))


\* ------------------------------------------------------------------------
\* What a worker's loop computes over one chunk
\* ------------------------------------------------------------------------

\* The n buffers reached from buf by n - 1 calls of increment_password
\* (buf first), built by halving.
RECURSIVE Walk(_, _, _)
Walk(buf, charset, n) ==
    IF n = 0 THEN <<>>
    ELSE IF n = 1 THEN << buf >>
    ELSE LET h == n \div 2
             left == Walk(buf, charset, h)
         IN  left \o Walk(increment_password(left[h], charset), charset, n - h)

\* The chunk [start_idx, end_idx) of one length: bufs[j + 1] is pwd_buf
\* after the seed index_to_bytes(start_idx) and j calls of
\* increment_password (the last one is the call that follows the chunk's
\* last candidate); accepts holds the offsets j of the candidates that
\* try_unlock_ultra_safe accepts.
ChunkRun(zip_data, charset, len, start_idx, end_idx) ==
    LET bufs == Walk(index_to_bytes(start_idx, charset, len), charset,
                     end_idx - start_idx + 1)
    IN  [ bufs |-> bufs,
          accepts |-> {j \in 0..(end_idx - start_idx - 1) :
                          try_unlock_ultra_safe(zip_data, bufs[j + 1])} ]

\* ------------------------------------------------------------------------
\* Inputs of the runs: archives and configurations
\* ------------------------------------------------------------------------

Read(data) == [err |-> FALSE, data |-> data]

ReadError == [err |-> TRUE, data |-> <<>>]

\* An encrypted entry holding content, opened by the passwords of good;
\* the passwords of weak pass the check byte and give what weak says.
Encrypted(content, good, weak) ==
    [ encrypted |-> TRUE, aes |-> FALSE,
      size |-> Len(content), crc |-> crc32fast_hash(content),
      plain |-> <<>>,
      keys |-> [p \in good \cup DOMAIN weak |->
                   IF p \in good THEN Read(content) ELSE weak[p]] ]

Stored(content) ==
    [ encrypted |-> FALSE, aes |-> FALSE,
      size |-> Len(content), crc |-> crc32fast_hash(content),
      plain |-> content, keys |-> << >> ]

\* An AES-encrypted entry (method 99) holding content under the passwords
\* of good.
AesEncrypted(content, good) ==
    [Encrypted(content, good, [p \in {} |-> [err |-> TRUE, data |-> <<>>]])
        EXCEPT !.aes = TRUE]

Archive(entries) ==
    [parses |-> TRUE, aes_crypto |-> FALSE, entries |-> entries]

\* Bytes that are not an archive (malformed or truncated).
NotAnArchive == [parses |-> FALSE, aes_crypto |-> FALSE, entries |-> << >>]

NoWeak == [p \in {} |-> ReadError]

\* "hi"
HI == << 104, 105 >>

\* Eleven times "a": a content of one distinct byte.
AAA == [i \in 1..11 |-> 97]

\* "7", "42", "3", "5"
PW_7 == << 55 >>

PW_42 == << 52, 50 >>

PW_3 == << 51 >>

PW_5 == << 53 >>

\* "password1"
PW_PASSWORD1 == << 112, 97, 115, 115, 119, 111, 114, 100, 49 >>

\* "1w", "(8", "<{": the candidates of index 100, 3000 and 4200 of length 2
\* over numbers + lowercase + symbols.
PW_1W == << 49, 119 >>

PW_PAREN_8 == << 40, 56 >>

PW_LT_BRACE == << 60, 123 >>

\* hello.txt ("hi") under the password "7".
ZIP_7 == Archive(<< Encrypted(HI, {PW_7}, NoWeak) >>)

\* The same under "42"; "3" passes the check byte and decrypts to garbage
\* of the declared size, "5" passes it and fails to read.
ZIP_42 ==
    Archive(<< Encrypted(HI, {PW_42},
                         (PW_3 :> Read(<< 1, 2 >>)) @@ (PW_5 :> ReadError)) >>)

\* A file of eleven equal bytes under "7".
ZIP_AAA == Archive(<< Encrypted(AAA, {PW_7}, NoWeak) >>)

\* A stored entry followed by an encrypted one.
ZIP_MIXED == Archive(<< Stored(HI), Encrypted(HI, {PW_7}, NoWeak) >>)

\* Two entries encrypted with different passwords.
ZIP_TWO_PASSWORDS ==
    Archive(<< Encrypted(HI, {PW_PASSWORD1}, NoWeak),
               Encrypted(HI, {PW_7}, NoWeak) >>)

\* An entry that two candidates of different chunks open.
ZIP_TWO_KEYS == Archive(<< Encrypted(HI, {PW_1W, PW_LT_BRACE}, NoWeak) >>)

\* An entry opened by a candidate behind the first batch flush of chunk 0.
ZIP_LATE == Archive(<< Encrypted(HI, {PW_PAREN_8}, NoWeak) >>)

\* "Password1"
PW_CAP_PASSWORD1 == << 80, 97, 115, 115, 119, 111, 114, 100, 49 >>

\* hello.txt under "Password1".
ZIP_CAPITAL == Archive(<< Encrypted(HI, {PW_CAP_PASSWORD1}, NoWeak) >>)

\* hello.txt AES-encrypted under "7", read by a zip crate without and with
\* its aes-crypto feature.
ZIP_AES == Archive(<< AesEncrypted(HI, {PW_7}) >>)

ZIP_AES_CRYPTO == [ZIP_AES EXCEPT !.aes_crypto = TRUE]

\* An archive without entries.
ZIP_EMPTY == Archive(<< >>)

\* hello.txt under "7", with a check byte that the empty password passes
\* (as it does for about one entry in 256): decrypting with the empty
\* password gives a file, whose content is garbage.
ZIP_EMPTY_KEY ==
    Archive(<< Encrypted(HI, {PW_7}, (EMPTY_PASSWORD :> Read(<< 1, 2 >>))) >>)

Config(min_length, max_length, lower, upper, numbers, symbols, dictionary) ==
    [ min_length |-> min_length, max_length |-> max_length,
      use_lowercase |-> lower, use_uppercase |-> upper,
      use_numbers |-> numbers, use_symbols |-> symbols,
      use_dictionary |-> dictionary, custom_words |-> << >> ]

\* Digits, lengths 1..2.
CFG_DIGITS == Config(1, 2, FALSE, FALSE, TRUE, FALSE, FALSE)

\* Digits, length 1, after the dictionary.
CFG_DICTIONARY == Config(1, 1, FALSE, FALSE, TRUE, FALSE, TRUE)

\* Numbers + lowercase + symbols, length 2: 68^2 = 4624 candidates, a chunk
\* of 4096 and one of 528.
CFG_WIDE == Config(2, 2, TRUE, FALSE, TRUE, TRUE, FALSE)

\* All 94 characters, length 10: 94^10 exceeds 2^64 - 1.
CFG_LONG == Config(10, 10, TRUE, TRUE, TRUE, TRUE, FALSE)

\* No alphabet, no dictionary.
CFG_NONE == Config(1, 1, FALSE, FALSE, FALSE, FALSE, FALSE)

\* No alphabet, the dictionary only.
CFG_DICT_ONLY == Config(1, 1, FALSE, FALSE, FALSE, FALSE, TRUE)

Input(zip_data, cfg) == [file_bytes |-> zip_data, config |-> cfg]

InputList ==
    << Input(ZIP_7, CFG_DIGITS), Input(ZIP_42, CFG_DIGITS),
       Input(ZIP_AAA, CFG_DIGITS), Input(ZIP_MIXED, CFG_DIGITS),
       Input(ZIP_7, CFG_DICTIONARY), Input(ZIP_TWO_PASSWORDS, CFG_DICTIONARY),
       Input(ZIP_TWO_KEYS, CFG_WIDE), Input(ZIP_LATE, CFG_WIDE),
       Input(ZIP_7, CFG_LONG),
       Input(ZIP_CAPITAL, CFG_DICTIONARY),
       Input(ZIP_AES, CFG_DIGITS), Input(ZIP_AES_CRYPTO, CFG_DIGITS),
       Input(NotAnArchive, CFG_DIGITS), Input(ZIP_EMPTY, CFG_DIGITS),
       Input(ZIP_7, CFG_NONE), Input(ZIP_7, CFG_DICT_ONLY),
       Input(ZIP_EMPTY_KEY, CFG_DIGITS) >>

Inputs == Range(InputList)

\* The chunks of every length of every input, computed once:
\* BruteTable[i][length - min_length + 1][chunk_idx + 1] for InputList[i].
chunk_size_of(cfg) == adaptive_chunk_size(Len(CompactCharsetNew(cfg)))

\* total and num_chunks of one length (lines 415-416).
LengthPlan(cfg, len, checks) ==
    LET total == saturating_pow(Len(CompactCharsetNew(cfg)), len)
        n == NumChunks(total, chunk_size_of(cfg), checks)
    IN  [total |-> total, num_chunks |-> n.val, panic |-> n.panic]

\* start_idx and end_idx of a chunk (lines 426-427), for a total that fits.
StartIdx(cfg, chunk_idx) == chunk_idx * chunk_size_of(cfg)

EndIdx(cfg, len, chunk_idx) ==
    Min(StartIdx(cfg, chunk_idx) + chunk_size_of(cfg),
        U64ToNat(LengthPlan(cfg, len, FALSE).total))

RECURSIVE ChunksFrom(_, _, _)
ChunksFrom(inp, len, c) ==
    IF c > U64ToNat(LengthPlan(inp.config, len, FALSE).num_chunks) THEN << >>
    ELSE << ChunkRun(inp.file_bytes, CompactCharsetNew(inp.config), len,
                     StartIdx(inp.config, c - 1),
                     EndIdx(inp.config, len, c - 1)) >>
         \o ChunksFrom(inp, len, c + 1)

RECURSIVE LengthsFrom(_, _)
LengthsFrom(inp, len) ==
    IF len > inp.config.max_length THEN << >>
    ELSE << ChunksFrom(inp, len, 1) >> \o LengthsFrom(inp, len + 1)

RECURSIVE TableFrom(_)
TableFrom(i) ==
    IF i > Len(InputList) THEN << >>
    ELSE << LengthsFrom(InputList[i], InputList[i].config.min_length) >>
         \o TableFrom(i + 1)

BruteTable == TableFrom(1)

\* ------------------------------------------------------------------------
\* State
\* ------------------------------------------------------------------------

VARIABLES
    pause_flag,         \* PAUSE_FLAG, the process-wide pause flag
    overflow_checks,    \* the build: TRUE when `+` panics on overflow
    file_bytes,         \* crack_zip_password's arguments ...
    config,
    sink,               \* ... and the events added to progress_sink
    pc,                 \* where the driver (the calling thread) is
    ret,                \* what the call returned: "Ok", "Err" or "none"
    target_entry,
    length,             \* the loop variable of line 407
    attempts,           \* the three shared objects of lines 362-364
    found,
    password_found,
    candidates,         \* dictionary_attack's locals
    found_flag,
    dict_attempts,
    todo,               \* items of the running find_map_any not yet handed out
    results,            \* the Some(..) its closures returned so far
    workers,            \* the pool threads: what each one is doing
    rpc,                \* the reporter thread
    reports,
    tested,             \* history: candidates tested in this run
    since_pause,        \* history: candidates each worker tested while paused
    tested_after_found, \* history: a worker tested after reading the flag set
    earlier_found,      \* history: an earlier call ended with its flag set
    odometer,           \* a password buffer advanced on its own (see OdoSpec)
    api                 \* the last call of a synchronous function (see ApiSpec)

vars ==
    << api, odometer, earlier_found, pause_flag, overflow_checks, file_bytes, config, sink, pc, ret,
       target_entry, length, attempts, found, password_found, candidates,
       found_flag, dict_attempts, todo, results, workers, rpc, reports,
       tested, since_pause, tested_after_found >>

Workers == 1..NumWorkers

None == [some |-> FALSE, val |-> << >>]

Some(v) == [some |-> TRUE, val |-> v]

Charset == CompactCharsetNew(config)

chunk_size == chunk_size_of(config)

IdleWorker ==
    [ pc |-> "idle", item |-> 0, off |-> 0, local_count |-> 0,
      pwd_buf |-> << >>, saw_found |-> FALSE,
      since_poll |-> 0 ]  \* history: candidates tested since the last poll

AllIdle == \A w \in Workers : workers[w].pc = "idle"

\* A CrackProgress; by records the thread that added it.
Event(phase, tag, pwd, att, rate, by) ==
    [ phase |-> phase, current_password |-> [tag |-> tag, pwd |-> pwd],
      attempts |-> att, passwords_per_second |-> rate, by |-> by ]

\* report_error
ErrorEvent(message) == Event("error", message, << >>, 0, "zero", "driver")


\* ------------------------------------------------------------------------
\* The driver: crack_zip_password
\* ------------------------------------------------------------------------

\* No synchronous function has been called.
NoApi ==
    [ call |-> "none", cfg |-> << >>, result |-> << >>,
      file_bytes |-> << >>, password |-> << >>, ok |-> FALSE ]

\* No buffer is being advanced on its own during the runs.
NoOdometer == [charset |-> << >>, len |-> 0, pwd_buf |-> << >>, seen |-> << >>]

Init ==
    /\ pause_flag = FALSE
    /\ overflow_checks \in BOOLEAN
    /\ file_bytes = NotAnArchive
    /\ config = Config(0, 0, FALSE, FALSE, FALSE, FALSE, FALSE)
    /\ sink = << >>
    /\ pc = "idle"
    /\ ret = "none"
    /\ target_entry = -1
    /\ length = 0
    /\ attempts = 0
    /\ found = FALSE
    /\ password_found = None
    /\ candidates = << >>
    /\ found_flag = FALSE
    /\ dict_attempts = 0
    /\ todo = {}
    /\ results = {}
    /\ workers = [w \in Workers |-> IdleWorker]
    /\ rpc = "off"
    /\ reports = 0
    /\ tested = 0
    /\ since_pause = [w \in Workers |-> 0]
    /\ tested_after_found = FALSE
    /\ earlier_found = FALSE
    /\ odometer = NoOdometer
    /\ api = NoApi

\* The shared objects kept from one call to the next, as process-wide
\* statics would be.
KeptShared ==
    /\ attempts' = attempts
    /\ found' = found
    /\ password_found' = password_found

\* Lines 362-364: the counters shared between the threads of one call.
FreshShared ==
    /\ attempts' = 0
    /\ found' = FALSE
    /\ password_found' = None

\* Lines 342-364, up to the first phase: [pc, ret, sink, target].
Prologue(zip_data, cfg) ==
    IF ~ZipArchiveNewOk(zip_data)
    THEN [pc |-> "returned", ret |-> "Err", target |-> -1,
          sink |-> << ErrorEvent("ERRO: invalid archive") >>]
    ELSE IF ArchiveLen(zip_data) = 0
    THEN [pc |-> "returned", ret |-> "Err", target |-> -1,
          sink |-> << ErrorEvent("ERRO: ZIP vazio") >>]
    ELSE IF find_first_encrypted_entry(zip_data, ArchiveLen(zip_data)) = -1
    THEN [pc |-> "returned", ret |-> "Ok", target |-> -1,
          sink |-> << Event("bruteforce",
                            "ZIP não possui arquivos criptografados",
                            << >>, 0, "zero", "driver") >>]
    ELSE IF CompactCharsetNew(cfg) = << >>
    THEN [pc |-> "returned", ret |-> "Err",
          target |-> find_first_encrypted_entry(zip_data, ArchiveLen(zip_data)),
          sink |-> << ErrorEvent("ERRO: Nenhum caractere selecionado") >>]
    ELSE [pc |-> IF cfg.use_dictionary THEN "dictionary" ELSE "spawn",
          ret |-> "none",
          target |-> find_first_encrypted_entry(zip_data, ArchiveLen(zip_data)),
          sink |-> << >>]

\* A call of crack_zip_password, up to the first phase.
Call(inp) ==
    /\ pc \in {"idle", "returned"}
    /\ file_bytes' = inp.file_bytes
    /\ config' = inp.config
    /\ LET p == Prologue(inp.file_bytes, inp.config)
       IN  /\ pc' = p.pc
           /\ ret' = p.ret
           /\ sink' = p.sink
           /\ target_entry' = p.target
    /\ FreshShared
    /\ length' = 0
    /\ candidates' = << >>
    /\ found_flag' = FALSE
    /\ dict_attempts' = 0
    /\ todo' = {}
    /\ results' = {}
    /\ workers' = [w \in Workers |-> IdleWorker]
    /\ rpc' = "off"
    /\ reports' = 0
    /\ tested' = 0
    /\ since_pause' = [w \in Workers |-> 0]
    /\ tested_after_found' = FALSE
    /\ earlier_found' = (earlier_found \/ found)
    /\ UNCHANGED << api, odometer, pause_flag, overflow_checks >>

\* dictionary_attack, lines 248-280: the candidate list and the first event.
DictBegin ==
    /\ pc = "dictionary"
    /\ candidates' = DictionaryCandidates(config.custom_words)
    /\ found_flag' = FALSE
    /\ dict_attempts' = 0
    /\ todo' = DOMAIN candidates'
    /\ results' = {}
    /\ sink' = Append(sink, Event("dictionary", "Dicionário", << >>, 0,
                                  "zero", "driver"))
    /\ pc' = "dict_par"
    /\ UNCHANGED << api, odometer, earlier_found, pause_flag, overflow_checks, file_bytes, config, ret,
                    target_entry, length, attempts, found, password_found,
                    workers, rpc, reports, tested, since_pause,
                    tested_after_found >>

\* The dictionary phase without the return of line 393: the run goes on to
\* the brute-force phase whatever the result of dictionary_attack.
DictJoinFallsThrough ==
    /\ pc = "dict_par"
    /\ AllIdle
    /\ todo = {} \/ results # {}
    /\ attempts' = attempts + dict_attempts
    /\ todo' = {}
    /\ pc' = "spawn"
    /\ results' = {}
    /\ UNCHANGED << api, odometer, earlier_found, pause_flag, overflow_checks,
                    file_bytes, config, sink, ret, target_entry, length,
                    found, password_found, candidates, found_flag,
                    dict_attempts, workers, rpc, reports, tested, since_pause,
                    tested_after_found >>

\* find_map_any returns (line 324) and the attempts are added (line 326):
\* every closure has returned; once one returned Some, rayon may skip the
\* items it has not started.
DictJoin ==
    /\ pc = "dict_par"
    /\ AllIdle
    /\ todo = {} \/ results # {}
    /\ attempts' = attempts + dict_attempts
    /\ todo' = {}
    /\ IF results = {}
       THEN pc' = "spawn" /\ results' = {}
       ELSE pc' = "dict_hit" /\ \E r \in results : results' = {r}
    /\ UNCHANGED << api, odometer, earlier_found, pause_flag, overflow_checks, file_bytes, config, sink,
                    ret, target_entry, length, found, password_found,
                    candidates, found_flag, dict_attempts, workers, rpc,
                    reports, tested, since_pause, tested_after_found >>

\* Line 375.
DictHitFound ==
    /\ pc = "dict_hit"
    /\ found' = TRUE
    /\ pc' = "dict_slot"
    /\ UNCHANGED << api, odometer, earlier_found, pause_flag, overflow_checks, file_bytes, config, sink,
                    ret, target_entry, length, attempts, password_found,
                    candidates, found_flag, dict_attempts, todo, results,
                    workers, rpc, reports, tested, since_pause,
                    tested_after_found >>

\* Line 376.
DictHitSlot ==
    /\ pc = "dict_slot"
    /\ \E r \in results : password_found' = Some(r)
    /\ pc' = "dict_emit"
    /\ UNCHANGED << api, odometer, earlier_found, pause_flag, overflow_checks, file_bytes, config, sink,
                    ret, target_entry, length, attempts, found, candidates,
                    found_flag, dict_attempts, todo, results, workers, rpc,
                    reports, tested, since_pause, tested_after_found >>

\* Lines 378-392: the event of a dictionary hit, and the return.
DictHitEmit ==
    /\ pc = "dict_emit"
    /\ sink' = Append(sink, Event("dictionary", "FOUND:", password_found.val,
                                  attempts, "measured", "driver"))
    /\ ret' = "Ok"
    /\ pc' = "returned"
    /\ UNCHANGED << api, odometer, earlier_found, pause_flag, overflow_checks, file_bytes, config,
                    target_entry, length, attempts, found, password_found,
                    candidates, found_flag, dict_attempts, todo, results,
                    workers, rpc, reports, tested, since_pause,
                    tested_after_found >>

\* Lines 397-407: the reporter thread is spawned, the loop over the
\* lengths starts.
Spawn ==
    /\ pc = "spawn"
    /\ rpc' = "sleep"
    /\ reports' = 0
    /\ length' = config.min_length
    /\ pc' = "len_head"
    /\ UNCHANGED << api, odometer, earlier_found, pause_flag, overflow_checks, file_bytes, config, sink,
                    ret, target_entry, attempts, found, password_found,
                    candidates, found_flag, dict_attempts, todo, results,
                    workers, tested, since_pause, tested_after_found >>

\* Lines 407-410: the loop head and the found check.
LenHead ==
    /\ pc = "len_head"
    /\ pc' = IF length > config.max_length \/ found THEN "finish"
             ELSE "len_pause"
    /\ UNCHANGED << api, odometer, earlier_found, pause_flag, overflow_checks, file_bytes, config, sink,
                    ret, target_entry, length, attempts, found,
                    password_found, candidates, found_flag, dict_attempts,
                    todo, results, workers, rpc, reports, tested,
                    since_pause, tested_after_found >>

\* Lines 413-418: wait_if_paused returns, total and num_chunks are
\* computed and the chunks handed to the pool.
LenStart ==
    /\ pc = "len_pause"
    /\ ~pause_flag
    /\ LET plan == LengthPlan(config, length, overflow_checks)
       IN  IF plan.panic
           THEN pc' = "panicked" /\ ret' = "panic" /\ todo' = {}
           ELSE /\ pc' = "par"
                /\ ret' = ret
                /\ todo' = 0..(U64ToNat(plan.num_chunks) - 1)
    /\ results' = {}
    /\ UNCHANGED << api, odometer, earlier_found, pause_flag, overflow_checks, file_bytes, config, sink,
                    target_entry, length, attempts, found, password_found,
                    candidates, found_flag, dict_attempts, workers, rpc,
                    reports, tested, since_pause, tested_after_found >>

\* find_map_any returns (line 471); lines 473-477.
ParJoin ==
    /\ pc = "par"
    /\ AllIdle
    /\ todo = {} \/ results # {}
    /\ todo' = {}
    /\ IF results = {}
       THEN /\ length' = length + 1
            /\ pc' = "len_head"
            /\ UNCHANGED password_found
       ELSE /\ \E r \in results : password_found' = Some(r)
            /\ pc' = "finish"
            /\ UNCHANGED length
    /\ UNCHANGED << api, odometer, earlier_found, pause_flag, overflow_checks, file_bytes, config, sink,
                    ret, target_entry, attempts, found, candidates,
                    found_flag, dict_attempts, results, workers, rpc,
                    reports, tested, since_pause, tested_after_found >>

\* Line 480.
Finish ==
    /\ pc = "finish"
    /\ found' = TRUE
    /\ pc' = "join"
    /\ UNCHANGED << api, odometer, earlier_found, pause_flag, overflow_checks, file_bytes, config, sink,
                    ret, target_entry, length, attempts, password_found,
                    candidates, found_flag, dict_attempts, todo, results,
                    workers, rpc, reports, tested, since_pause,
                    tested_after_found >>

\* The driver goes on to its last event without waiting for the reporter
\* thread.
JoinWithoutWait ==
    /\ pc = "join"
    /\ pc' = "emit"
    /\ UNCHANGED << api, odometer, earlier_found, pause_flag, overflow_checks,
                    file_bytes, config, sink, ret, target_entry, length,
                    attempts, found, password_found, candidates, found_flag,
                    dict_attempts, todo, results, workers, rpc, reports,
                    tested, since_pause, tested_after_found >>

\* Line 481: progress_thread.join() returns once the thread has exited.
Join ==
    /\ pc = "join"
    /\ rpc = "exited"
    /\ pc' = "emit"
    /\ UNCHANGED << api, odometer, earlier_found, pause_flag, overflow_checks, file_bytes, config, sink,
                    ret, target_entry, length, attempts, found,
                    password_found, candidates, found_flag, dict_attempts,
                    todo, results, workers, rpc, reports, tested,
                    since_pause, tested_after_found >>

\* Lines 483-504: the last event, and the return.
Emit ==
    /\ pc = "emit"
    /\ sink' = Append(sink,
                      Event("bruteforce",
                            IF password_found.some THEN "FOUND:" ELSE "",
                            password_found.val, attempts, "measured", "driver"))
    /\ ret' = "Ok"
    /\ pc' = "returned"
    /\ UNCHANGED << api, odometer, earlier_found, pause_flag, overflow_checks, file_bytes, config,
                    target_entry, length, attempts, found, password_found,
                    candidates, found_flag, dict_attempts, todo, results,
                    workers, rpc, reports, tested, since_pause,
                    tested_after_found >>


\* ------------------------------------------------------------------------
\* The pool threads
\* ------------------------------------------------------------------------

\* A closure has returned: the thread is free for the next item.
Returned(w) == [IdleWorker EXCEPT !.saw_found = workers[w].saw_found]

\* The candidates a thread has tested while the pause flag was set.
Counted(w, n) ==
    IF pause_flag THEN [since_pause EXCEPT ![w] = @ + n] ELSE since_pause

\* A thread that has read found = TRUE tests n more candidates.
AfterFound(w, n) == tested_after_found \/ (workers[w].saw_found /\ n > 0)

\* One closure of the dictionary phase up to its result (lines 282-322):
\* the pool hands the next word of the list to a free thread, which reads
\* the flag of the phase (285), counts the attempt (295) and tests the
\* word on the target entry.  Between the read of the flag and the result
\* the thread touches no shared state but dict_attempts, which nothing
\* reads before the threads are joined (326), so the step is atomic.
D_Try(w) ==
    /\ pc = "dict_par"
    /\ workers[w].pc = "idle"
    /\ todo # {}
    /\ \E i \in todo :
         /\ \A k \in todo : i <= k
         /\ todo' = todo \ {i}
         /\ IF found_flag
            THEN /\ workers' = [workers EXCEPT ![w] =
                                   [Returned(w) EXCEPT !.saw_found = TRUE]]
                 /\ UNCHANGED << dict_attempts, tested, since_pause,
                                 tested_after_found >>
            ELSE /\ dict_attempts' = dict_attempts + 1
                 /\ tested' = tested + 1
                 /\ since_pause' = Counted(w, 1)
                 /\ tested_after_found' = AfterFound(w, 1)
                 /\ workers' = [workers EXCEPT ![w] =
                                   IF DictionaryTest(file_bytes, target_entry,
                                                     candidates[i])
                                   THEN [@ EXCEPT !.pc = "d_store", !.item = i,
                                                  !.pwd_buf = candidates[i]]
                                   ELSE Returned(w)]
    /\ UNCHANGED << api, odometer, earlier_found, pause_flag, overflow_checks, file_bytes, config, sink, pc,
                    ret, target_entry, length, attempts, found,
                    password_found, candidates, found_flag, results, rpc,
                    reports >>

\* Lines 320-323: the flag of the phase is set and the closure returns
\* Some(pwd).
D_Store(w) ==
    /\ pc = "dict_par"
    /\ workers[w].pc = "d_store"
    /\ found_flag' = TRUE
    /\ results' = results \cup {workers[w].pwd_buf}
    /\ workers' = [workers EXCEPT ![w] = Returned(w)]
    /\ UNCHANGED << api, odometer, earlier_found, pause_flag, overflow_checks, file_bytes, config, sink, pc,
                    ret, target_entry, length, attempts, found,
                    password_found, candidates, dict_attempts, todo, rpc,
                    reports, tested, since_pause, tested_after_found >>

\* The chunk a thread is working on.
ChunkOf(w) ==
    LET i == CHOOSE k \in DOMAIN InputList :
                 InputList[k] = Input(file_bytes, config)
    IN  BruteTable[i][length - config.min_length + 1][workers[w].item + 1]

\* The number of candidates of the chunk (end_idx - start_idx).
ChunkLen(w) == Len(ChunkOf(w).bufs) - 1

\* Line 438.
PollDue(local_count) == local_count % POLL_PERIOD = 0 /\ local_count > 0

\* Line 455.
BatchDue(local_count) == local_count % BATCH_SIZE = 0

\* The pool hands a chunk to a free thread (line 418), whose closure
\* starts by reading the found flag (lines 419-421).
B_Take(w) ==
    /\ pc = "par"
    /\ workers[w].pc = "idle"
    /\ \E c \in todo :
         /\ workers' = [workers EXCEPT ![w] =
                           IF found
                           THEN [Returned(w) EXCEPT !.saw_found = TRUE]
                           ELSE [@ EXCEPT !.pc = "c_pause", !.item = c]]
         /\ todo' = todo \ {c}
    /\ UNCHANGED << api, odometer, earlier_found, pause_flag, overflow_checks, file_bytes, config, sink, pc,
                    ret, target_entry, length, attempts, found,
                    password_found, candidates, found_flag, dict_attempts,
                    results, rpc, reports, tested, since_pause,
                    tested_after_found >>

\* Lines 424-434: wait_if_paused returns, the first candidate of the
\* chunk is written to the buffer.
B_Pause(w) ==
    /\ pc = "par"
    /\ workers[w].pc = "c_pause"
    /\ ~pause_flag
    /\ workers' = [workers EXCEPT ![w] =
                      [@ EXCEPT !.pc = "run", !.off = 0, !.local_count = 0,
                                !.pwd_buf = ChunkOf(w).bufs[1]]]
    /\ UNCHANGED << api, odometer, earlier_found, pause_flag, overflow_checks, file_bytes, config, sink, pc,
                    ret, target_entry, length, attempts, found,
                    password_found, candidates, found_flag, dict_attempts,
                    todo, results, rpc, reports, tested, since_pause,
                    tested_after_found >>

\* Lines 436-463, from one candidate to the next point where the thread
\* reads or writes shared state: a candidate accepted (446), the batch
\* flush (455), the poll (438) or the end of the range (436).  off is the
\* offset in the chunk of the candidate in the buffer, c the local count.
\* The result is [pc, off, local_count, tests].
RunSegment(off, c, chunk) ==
    LET n == Len(chunk.bufs) - 1
        j == POLL_PERIOD - (c % POLL_PERIOD)
        m == Min(j, n - off)
        hits == {h \in chunk.accepts : off <= h /\ h < off + m}
    IN  IF hits # {}
        THEN [pc |-> "hit", off |-> SetMin(hits),
              local_count |-> c + (SetMin(hits) - off),
              tests |-> SetMin(hits) - off + 1]
        ELSE IF m = j /\ BatchDue(c + m)
        THEN [pc |-> "batch", off |-> off + m - 1, local_count |-> c + m,
              tests |-> m]
        ELSE IF off + m = n
        THEN [pc |-> "rest", off |-> n, local_count |-> c + m, tests |-> m]
        ELSE [pc |-> "p_found", off |-> off + m, local_count |-> c + m,
              tests |-> m]

B_Run(w) ==
    /\ pc = "par"
    /\ workers[w].pc = "run"
    /\ LET seg == RunSegment(workers[w].off, workers[w].local_count,
                             ChunkOf(w))
       IN  /\ workers' = [workers EXCEPT ![w] =
                             [@ EXCEPT !.pc = seg.pc, !.off = seg.off,
                                       !.local_count = seg.local_count,
                                       !.since_poll = @ + seg.tests,
                                       !.pwd_buf = ChunkOf(w).bufs[seg.off + 1]]]
           /\ tested' = tested + seg.tests
           /\ since_pause' = Counted(w, seg.tests)
           /\ tested_after_found' = AfterFound(w, seg.tests)
    /\ UNCHANGED << api, odometer, earlier_found, pause_flag, overflow_checks, file_bytes, config, sink, pc,
                    ret, target_entry, length, attempts, found,
                    password_found, candidates, found_flag, dict_attempts,
                    todo, results, rpc, reports >>

\* The poll of the found flag without the break: the flag is read and the
\* loop goes on.
B_PollFoundNoBreak(w) ==
    /\ pc = "par"
    /\ workers[w].pc = "p_found"
    /\ workers' = [workers EXCEPT ![w] =
                      [@ EXCEPT !.pc = "p_pause", !.since_poll = 0,
                                !.saw_found = @ \/ found]]
    /\ UNCHANGED << api, odometer, earlier_found, pause_flag, overflow_checks,
                    file_bytes, config, sink, pc, ret, target_entry, length,
                    attempts, found, password_found, candidates, found_flag,
                    dict_attempts, todo, results, rpc, reports, tested,
                    since_pause, tested_after_found >>

\* Lines 439-441: the poll of the found flag.
B_PollFound(w) ==
    /\ pc = "par"
    /\ workers[w].pc = "p_found"
    /\ workers' = [workers EXCEPT ![w] =
                      IF found
                      THEN [@ EXCEPT !.pc = "rest", !.saw_found = TRUE,
                                     !.since_poll = 0]
                      ELSE [@ EXCEPT !.pc = "p_pause", !.since_poll = 0]]
    /\ UNCHANGED << api, odometer, earlier_found, pause_flag, overflow_checks, file_bytes, config, sink, pc,
                    ret, target_entry, length, attempts, found,
                    password_found, candidates, found_flag, dict_attempts,
                    todo, results, rpc, reports, tested, since_pause,
                    tested_after_found >>

\* Line 442: wait_if_paused returns.
B_PollPause(w) ==
    /\ pc = "par"
    /\ workers[w].pc = "p_pause"
    /\ ~pause_flag
    /\ workers' = [workers EXCEPT ![w] = [@ EXCEPT !.pc = "run"]]
    /\ UNCHANGED << api, odometer, earlier_found, pause_flag, overflow_checks, file_bytes, config, sink, pc,
                    ret, target_entry, length, attempts, found,
                    password_found, candidates, found_flag, dict_attempts,
                    todo, results, rpc, reports, tested, since_pause,
                    tested_after_found >>

\* Lines 455-462: the batch flush, then the next candidate.
B_Batch(w) ==
    /\ pc = "par"
    /\ workers[w].pc = "batch"
    /\ attempts' = attempts + BATCH_SIZE
    /\ workers' = [workers EXCEPT ![w] =
                      [@ EXCEPT !.pc = IF workers[w].off + 1 = ChunkLen(w)
                                       THEN "rest" ELSE "run",
                                !.local_count = @ - BATCH_SIZE,
                                !.off = @ + 1,
                                !.pwd_buf = ChunkOf(w).bufs[workers[w].off + 2]]]
    /\ UNCHANGED << api, odometer, earlier_found, pause_flag, overflow_checks, file_bytes, config, sink, pc,
                    ret, target_entry, length, found, password_found,
                    candidates, found_flag, dict_attempts, todo, results, rpc,
                    reports, tested, since_pause, tested_after_found >>

\* Line 447.
B_Hit(w) ==
    /\ pc = "par"
    /\ workers[w].pc = "hit"
    /\ found' = TRUE
    /\ workers' = [workers EXCEPT ![w] = [@ EXCEPT !.pc = "hit_add"]]
    /\ UNCHANGED << api, odometer, earlier_found, pause_flag, overflow_checks, file_bytes, config, sink, pc,
                    ret, target_entry, length, attempts, password_found,
                    candidates, found_flag, dict_attempts, todo, results, rpc,
                    reports, tested, since_pause, tested_after_found >>

\* The return of a hit by a thread that writes the result slot itself.
B_HitAddWritesSlot(w) ==
    /\ pc = "par"
    /\ workers[w].pc = "hit_add"
    /\ attempts' = attempts + workers[w].local_count + 1
    /\ results' = results \cup {workers[w].pwd_buf}
    /\ password_found' = Some(workers[w].pwd_buf)
    /\ workers' = [workers EXCEPT ![w] = Returned(w)]
    /\ UNCHANGED << api, odometer, earlier_found, pause_flag, overflow_checks,
                    file_bytes, config, sink, pc, ret, target_entry, length,
                    found, candidates, found_flag, dict_attempts, todo, rpc,
                    reports, tested, since_pause, tested_after_found >>

\* The return of a hit that adds the local count without the candidate
\* that hit.
B_HitAddMissesHit(w) ==
    /\ pc = "par"
    /\ workers[w].pc = "hit_add"
    /\ attempts' = attempts + workers[w].local_count
    /\ results' = results \cup {workers[w].pwd_buf}
    /\ workers' = [workers EXCEPT ![w] = Returned(w)]
    /\ UNCHANGED << api, odometer, earlier_found, pause_flag, overflow_checks,
                    file_bytes, config, sink, pc, ret, target_entry, length,
                    found, password_found, candidates, found_flag,
                    dict_attempts, todo, rpc, reports, tested, since_pause,
                    tested_after_found >>

\* Lines 448-449.
B_HitAdd(w) ==
    /\ pc = "par"
    /\ workers[w].pc = "hit_add"
    /\ attempts' = attempts + workers[w].local_count + 1
    /\ results' = results \cup {workers[w].pwd_buf}
    /\ workers' = [workers EXCEPT ![w] = Returned(w)]
    /\ UNCHANGED << api, odometer, earlier_found, pause_flag, overflow_checks, file_bytes, config, sink, pc,
                    ret, target_entry, length, found, password_found,
                    candidates, found_flag, dict_attempts, todo, rpc, reports,
                    tested, since_pause, tested_after_found >>

\* The end of a closure without the flush of the rest of the local count.
B_RestNoFlush(w) ==
    /\ pc = "par"
    /\ workers[w].pc = "rest"
    /\ workers' = [workers EXCEPT ![w] = Returned(w)]
    /\ UNCHANGED << api, odometer, earlier_found, pause_flag, overflow_checks,
                    file_bytes, config, sink, pc, ret, target_entry, length,
                    attempts, found, password_found, candidates, found_flag,
                    dict_attempts, todo, results, rpc, reports, tested,
                    since_pause, tested_after_found >>

\* Lines 466-470: the rest of the local count is flushed.
B_Rest(w) ==
    /\ pc = "par"
    /\ workers[w].pc = "rest"
    /\ attempts' = IF workers[w].local_count > 0
                   THEN attempts + workers[w].local_count ELSE attempts
    /\ workers' = [workers EXCEPT ![w] = Returned(w)]
    /\ UNCHANGED << api, odometer, earlier_found, pause_flag, overflow_checks, file_bytes, config, sink, pc,
                    ret, target_entry, length, found, password_found,
                    candidates, found_flag, dict_attempts, todo, results, rpc,
                    reports, tested, since_pause, tested_after_found >>

\* ------------------------------------------------------------------------
\* The reporter thread (spawn_progress_thread) and the caller
\* ------------------------------------------------------------------------

\* The wake of the reporter without the exit: the thread goes on to
\* report whatever the found flag says.
R_WakeWithoutExit ==
    /\ rpc = "sleep"
    /\ reports < MaxReports
    /\ rpc' = "report"
    /\ UNCHANGED << api, odometer, earlier_found, pause_flag, overflow_checks,
                    file_bytes, config, sink, pc, ret, target_entry, length,
                    attempts, found, password_found, candidates, found_flag,
                    dict_attempts, todo, results, workers, reports, tested,
                    since_pause, tested_after_found >>

\* Lines 600-602: the thread wakes and reads the found flag.
R_Wake ==
    /\ rpc = "sleep"
    /\ IF found
       THEN rpc' = "exited"
       ELSE reports < MaxReports /\ rpc' = "report"
    /\ UNCHANGED << api, odometer, earlier_found, pause_flag, overflow_checks, file_bytes, config, sink, pc,
                    ret, target_entry, length, attempts, found,
                    password_found, candidates, found_flag, dict_attempts,
                    todo, results, workers, reports, tested, since_pause,
                    tested_after_found >>

\* Lines 604-622: a progress event.
R_Report ==
    /\ rpc = "report"
    /\ sink' = Append(sink,
                      Event("bruteforce", "...", << >>, attempts,
                            IF pause_flag THEN "zero" ELSE "measured",
                            "reporter"))
    /\ reports' = reports + 1
    /\ rpc' = "sleep"
    /\ UNCHANGED << api, odometer, earlier_found, pause_flag, overflow_checks, file_bytes, config, pc, ret,
                    target_entry, length, attempts, found, password_found,
                    candidates, found_flag, dict_attempts, todo, results,
                    workers, tested, since_pause, tested_after_found >>

\* set_pause (lines 24-26), called by the user interface at any time.
SetPause(paused) ==
    /\ paused # pause_flag
    /\ pause_flag' = paused
    /\ since_pause' = [w \in Workers |-> 0]
    /\ UNCHANGED << api, odometer, earlier_found, overflow_checks, file_bytes, config, sink, pc, ret,
                    target_entry, length, attempts, found, password_found,
                    candidates, found_flag, dict_attempts, todo, results,
                    workers, rpc, reports, tested, tested_after_found >>

Next ==
    \/ \E inp \in Inputs : Call(inp)
    \/ DictBegin
    \/ DictJoin
    \/ DictHitFound
    \/ DictHitSlot
    \/ DictHitEmit
    \/ Spawn
    \/ LenHead
    \/ LenStart
    \/ ParJoin
    \/ Finish
    \/ Join
    \/ Emit
    \/ \E w \in Workers :
         \/ D_Try(w)
         \/ D_Store(w)
         \/ B_Take(w)
         \/ B_Pause(w)
         \/ B_Run(w)
         \/ B_PollFound(w)
         \/ B_PollPause(w)
         \/ B_Batch(w)
         \/ B_Hit(w)
         \/ B_HitAdd(w)
         \/ B_Rest(w)
    \/ R_Wake
    \/ R_Report
    \/ \E paused \in BOOLEAN : SetPause(paused)

Spec == Init /\ [][Next]_vars

\* The reporter is a thread of its own that sleeps 200 ms between its
\* wakes: the scheduler lets it take its steps.
FairSpec == Spec /\ WF_vars(R_Wake) /\ WF_vars(R_Report)


\* ------------------------------------------------------------------------
\* The odometer on its own: index_to_bytes(0) advanced by increment_password
\* ------------------------------------------------------------------------

\* The longest buffer and the largest alphabet that are enumerated.
MaxLen == 3

MaxAlphabet == 3

\* The bytes the alphabets are made of: "a", "b", ...
AlphabetBytes == 97..(96 + MaxAlphabet)

\* The alphabets: the non-empty sequences of distinct bytes, in every order
\* (the index order of an alphabet need not be the order of its bytes).
Alphabets ==
    UNION { { a \in [1..n -> AlphabetBytes] :
                \A i, j \in 1..n : i # j => a[i] # a[j] } : n \in 1..MaxAlphabet }

\* n^k for small n and k.
RECURSIVE Pow(_, _)
Pow(n, k) == IF k = 0 THEN 1 ELSE n * Pow(n, k - 1)

OdoInit ==
    /\ pause_flag = FALSE
    /\ overflow_checks = FALSE
    /\ file_bytes = NotAnArchive
    /\ config = Config(0, 0, FALSE, FALSE, FALSE, FALSE, FALSE)
    /\ sink = << >>
    /\ pc = "odometer"
    /\ ret = "none"
    /\ target_entry = -1
    /\ length = 0
    /\ attempts = 0
    /\ found = FALSE
    /\ password_found = None
    /\ candidates = << >>
    /\ found_flag = FALSE
    /\ dict_attempts = 0
    /\ todo = {}
    /\ results = {}
    /\ workers = [w \in Workers |-> IdleWorker]
    /\ rpc = "off"
    /\ reports = 0
    /\ tested = 0
    /\ since_pause = [w \in Workers |-> 0]
    /\ tested_after_found = FALSE
    /\ earlier_found = FALSE
    /\ api = NoApi
    /\ \E charset \in Alphabets, len \in 0..MaxLen :
         odometer = [ charset |-> charset, len |-> len,
                      pwd_buf |-> index_to_bytes(0, charset, len),
                      seen |-> << index_to_bytes(0, charset, len) >> ]

\* One advance, as long as fewer than N^L buffers were obtained.
OdoAdvance ==
    /\ pc = "odometer"
    /\ Len(odometer.seen) < Pow(Len(odometer.charset), odometer.len)
    /\ odometer' =
         [odometer EXCEPT
            !.pwd_buf = increment_password(odometer.pwd_buf, odometer.charset),
            !.seen = Append(@, increment_password(odometer.pwd_buf,
                                                  odometer.charset))]
    /\ UNCHANGED << api, pause_flag, overflow_checks, file_bytes, config, sink,
                    pc, ret, target_entry, length, attempts, found,
                    password_found, candidates, found_flag, dict_attempts,
                    todo, results, workers, rpc, reports, tested, since_pause,
                    tested_after_found, earlier_found >>

OdoNext == OdoAdvance

OdoSpec == OdoInit /\ [][OdoNext]_vars


\* ------------------------------------------------------------------------
\* Properties
\* ------------------------------------------------------------------------

\* What an archive truly is, as opposed to what the program finds out about
\* it: pwd decrypts the entry, the entry reads without error and the bytes
\* match the declared size and the declared CRC32.
Opens(entry, pwd) ==
    /\ pwd \in DOMAIN entry.keys
    /\ ~entry.keys[pwd].err
    /\ Len(entry.keys[pwd].data) = entry.size
    /\ crc32fast_hash(entry.keys[pwd].data) = entry.crc

OpensEveryEntry(zip_data, pwd) ==
    \A i \in DOMAIN zip_data.entries :
        zip_data.entries[i].encrypted => Opens(zip_data.entries[i], pwd)

\* The passwords an event reports as found.
Reported == { sink[i].current_password.pwd :
                i \in {k \in DOMAIN sink : sink[k].current_password.tag = "FOUND:"} }

\* C1: a password that a run reports as found, in the dictionary phase or
\* in the brute-force phase, opens every encrypted entry of the archive:
\* each one decrypts, reads without error and matches its declared size
\* and CRC32.
C1_ReportedPasswordOpensEveryEntry ==
    \A pwd \in Reported : OpensEveryEntry(file_bytes, pwd)

\* The offsets in the chunk of thread w that the thread has tested and not
\* accepted.
Rejected(w) ==
    IF pc # "par" \/ workers[w].pc \in {"idle", "c_pause"} THEN {}
    ELSE IF workers[w].pc \in {"hit", "hit_add"} THEN 0..(workers[w].off - 1)
    ELSE IF workers[w].pc = "batch" THEN 0..workers[w].off
    ELSE 0..(workers[w].off - 1)

\* The passwords that open every encrypted entry of the archive of the run.
TruePasswords ==
    { pwd \in UNION { DOMAIN file_bytes.entries[i].keys :
                        i \in {k \in DOMAIN file_bytes.entries :
                                 file_bytes.entries[k].encrypted} } :
        OpensEveryEntry(file_bytes, pwd) }

\* C2: the test of the brute-force phase has no false negatives: a
\* candidate that decrypts every encrypted entry with matching declared
\* size and CRC32 is accepted, whatever the content of the entries; so no
\* thread has ever tested such a candidate without accepting it.
C2_NoFalseNegative ==
    \A w \in Workers :
        \A j \in Rejected(w) :
            j < ChunkLen(w) => ChunkOf(w).bufs[j + 1] \notin TruePasswords

\* C4: the result slot is written before the found flag is set: in every
\* state in which the flag is true the slot holds a password.
C4_SlotWrittenBeforeFound == found => password_found.some


\* The index of byte b in an alphabet of distinct bytes.
IndexOf(charset, b) == CHOOSE k \in DOMAIN charset : charset[k] = b

\* a before b in lexicographic order of alphabet index (equal lengths).
IndexLess(a, b, charset) ==
    \E k \in DOMAIN a :
        /\ \A j \in 1..(k - 1) : a[j] = b[j]
        /\ IndexOf(charset, a[k]) < IndexOf(charset, b[k])

\* The strings of length len over the alphabet.
Strings(charset, len) == [1..len -> Range(charset)]

\* C3: from index_to_bytes(0), the buffers obtained by advancing with
\* increment_password are strings of length L over the alphabet in
\* strictly ascending lexicographic order of alphabet index (so each one
\* appears once), and the N^L buffers are all the strings of length L.
C3_OdometerEnumeratesInOrder ==
    pc = "odometer" =>
        LET charset == odometer.charset
            seen == odometer.seen
        IN  /\ \A i \in DOMAIN seen : seen[i] \in Strings(charset, odometer.len)
            /\ \A i \in 1..(Len(seen) - 1) :
                   IndexLess(seen[i], seen[i + 1], charset)
            /\ Len(seen) = Pow(Len(charset), odometer.len)
                   => Range(seen) = Strings(charset, odometer.len)

\* All 27 strings of length 3 over the alphabet "b", "a", "c" were obtained.
C3_Witness ==
    /\ pc = "odometer"
    /\ odometer.charset = << 98, 97, 99 >>
    /\ odometer.len = 3
    /\ Len(odometer.seen) = 27
    /\ odometer.pwd_buf = << 99, 99, 99 >>


\* C5: a thread that has read the found flag (of its phase) as true tests
\* no further candidate in that run.
C5_NoTestAfterFlagRead == ~tested_after_found

\* A thread has left its chunk at a poll, having read the flag as true with
\* candidates of the chunk left.
C5_Witness ==
    \E w \in Workers :
        /\ pc = "par"
        /\ workers[w].pc = "rest"
        /\ workers[w].saw_found
        /\ workers[w].off < ChunkLen(w)

\* The driver is between the phases or past them: every closure that was
\* started has returned.
ClosuresReturned ==
    \/ pc \in {"spawn", "len_head", "len_pause", "finish", "join", "emit",
               "dict_hit", "dict_slot", "dict_emit"}
    \/ pc = "par" /\ AllIdle

\* The run got past the checks of the archive and of the alphabet, and
\* has returned.
RunEnded == pc = "returned" /\ ret = "Ok" /\ target_entry # -1

\* C6: during a run the attempts counter never decreases; no thread leaves
\* a closure with an unflushed local count, so once the closures have
\* returned the counter is at least the number of candidates tested; and
\* the value in the last event of the run is at least that number.
C6_AttemptsCountEveryTest ==
    /\ [][pc \notin {"idle", "returned"} => attempts' >= attempts]_vars
    /\ [](ClosuresReturned => attempts >= tested)
    /\ [](RunEnded => sink[Len(sink)].attempts >= tested)

\* A run has ended in which a thread flushed a batch, a thread hit and a
\* thread left at a poll of the flag.
C6_Witness ==
    /\ RunEnded
    /\ password_found.some
    /\ tested > BATCH_SIZE
    /\ \E w \in Workers : workers[w].saw_found
    /\ sink[Len(sink)].attempts = tested

\* A call gets past its checks and reaches the phases.
CallStarts == pc \in {"idle", "returned"} /\ pc' \in {"dictionary", "spawn"}

\* C7: within a run the found flag never goes back from true to false, and
\* a call that reaches the phases starts with its own flag, counter and
\* slot: false, 0 and empty.
C7_FlagLatchedAndFreshPerCall ==
    /\ [][pc \notin {"idle", "returned"} /\ found => found']_vars
    /\ [][CallStarts => ~found' /\ attempts' = 0 /\ password_found' = None]_vars

\* A call has started after an earlier call that ended with its flag set.
C7_Witness ==
    /\ earlier_found
    /\ pc \in {"dictionary", "spawn"}
    /\ ~found
    /\ attempts = 0
    /\ password_found = None

\* C8: once the pause flag is set, in the dictionary phase and in the
\* brute-force phase, a thread tests at most one poll period of further
\* candidates and then none until the flag is cleared.
C8_PauseStopsWithinOnePollPeriod ==
    pause_flag => \A w \in Workers : since_pause[w] <= POLL_PERIOD

\* a <= b on 64-bit values.
U64Leq(a, b) ==
    \/ a[4] < b[4]
    \/ a[4] = b[4] /\ a[3] < b[3]
    \/ a[4] = b[4] /\ a[3] = b[3] /\ a[2] < b[2]
    \/ a[4] = b[4] /\ a[3] = b[3] /\ a[2] = b[2] /\ a[1] <= b[1]

\* The number of candidates of the lengths len..max_length, or 2^64 - 1 if
\* it is larger.
RECURSIVE SearchSpaceFrom(_, _)
SearchSpaceFrom(cfg, len) ==
    IF len > cfg.max_length THEN U64FromNat(0)
    ELSE LET sum == U64Add(saturating_pow(Len(CompactCharsetNew(cfg)), len),
                           SearchSpaceFrom(cfg, len + 1))
         IN  IF sum.overflow THEN U64_MAX ELSE sum.val

\* The reporter saw the pause flag set during the run.
PausedDuringRun ==
    \E i \in DOMAIN sink :
        sink[i].by = "reporter" /\ sink[i].passwords_per_second = "zero"

\* C9: a run that was paused and resumed ends having reported a password
\* or having tested every candidate of every length in
\* [min_length, max_length].
C9_PausedRunEndsFoundOrExhausted ==
    RunEnded /\ PausedDuringRun /\ ~pause_flag
        => \/ Reported # {}
           \/ U64Leq(SearchSpaceFrom(config, config.min_length),
                     U64FromNat(tested - dict_attempts))

\* C10: a run that got past the checks of the archive and of the alphabet
\* ends with exactly one event of phase Done, the last one, emitted by the
\* driver and carrying the password found, or an empty one.
C10_OneTerminalDoneEvent ==
    RunEnded =>
        /\ {i \in DOMAIN sink : sink[i].phase = "Done"} = {Len(sink)}
        /\ sink[Len(sink)].by = "driver"
        /\ sink[Len(sink)].current_password.pwd = password_found.val

\* The archive holds an AES-encrypted entry.
AesArchive(zip_data) ==
    \E i \in DOMAIN zip_data.entries : zip_data.entries[i].aes

\* C11: on an archive whose encrypted entry uses AES, the call tests no
\* candidate and returns having emitted an event of phase error (the one
\* that names AES as unsupported).
C11_AesRejectedWithErrorEvent ==
    AesArchive(file_bytes) /\ pc # "idle" =>
        /\ tested = 0
        /\ pc = "returned" => \E k \in DOMAIN sink : sink[k].phase = "error"

\* C12: on bytes that do not parse as an archive, or an archive without
\* entries, the call emits one event, of phase error, starts no pool thread
\* and no reporter, tests no candidate and returns Ok.
C12_UnparsableArchiveReturnsOk ==
    pc = "returned"
    /\ (~ZipArchiveNewOk(file_bytes) \/ ArchiveLen(file_bytes) = 0) =>
        /\ Len(sink) = 1
        /\ sink[1].phase = "error"
        /\ rpc = "off"
        /\ AllIdle
        /\ tested = 0
        /\ ret = "Ok"

\* C13: a call on an archive with an encrypted entry fails with the
\* empty-alphabet error exactly when the four toggles are off and
\* use_dictionary is false; with the four toggles off and use_dictionary
\* true it does not fail and the dictionary phase is run.
C13_EmptyAlphabetErrorOnlyWithoutDictionary ==
    pc = "returned" /\ target_entry # -1 =>
        /\ ret = "Err" <=>
               (CompactCharsetNew(config) = << >> /\ ~config.use_dictionary)
        /\ CompactCharsetNew(config) = << >> /\ config.use_dictionary
               => candidates # << >>

\* Digits are the only subset enabled.
DigitsOnly(cfg) ==
    /\ cfg.use_numbers
    /\ ~cfg.use_lowercase
    /\ ~cfg.use_uppercase
    /\ ~cfg.use_symbols

\* C14: when digits are the only subset enabled the dictionary phase is
\* skipped even with use_dictionary true: the driver never enters it and
\* no dictionary candidate is tested.
C14_DigitsOnlySkipsDictionary ==
    DigitsOnly(config) =>
        /\ pc \notin {"dictionary", "dict_par", "dict_hit", "dict_slot",
                       "dict_emit"}
        /\ dict_attempts = 0

\* C17: for every base word w (wordlist and custom words) the candidate
\* list of the dictionary phase holds the capitalised w followed by "1":
\* "Password1" for the base word "password".
C17_CapitalisedWithSuffixIsCandidate ==
    pc = "dict_par" =>
        \A w \in Range(EMBEDDED_WORDLIST \o config.custom_words) :
            (Capitalize(w) \o << 49 >>) \in Range(candidates)

\* The last string of a length: every position holds the last character.
LastString(charset, len) == [i \in 1..len |-> charset[Len(charset)]]

\* The buffers of its chunk that thread w has passed to increment_password.
Advanced(w) ==
    IF pc # "par" \/ workers[w].pc \in {"idle", "c_pause"} THEN {}
    ELSE {ChunkOf(w).bufs[j] : j \in 1..workers[w].off}

\* C19: no thread calls increment_password on the last string of the
\* length, in no chunk, the last chunk of the length included.
C19_NoAdvancePastLastString ==
    \A w \in Workers : LastString(Charset, length) \notin Advanced(w)


\* ------------------------------------------------------------------------
\* The synchronous functions: estimate_combinations and test_zip_password
\* ------------------------------------------------------------------------

\* The symbols of build_charset (line 907), as code points.
SYMBOL_CHARS ==
    << 33, 64, 35, 36, 37, 94, 38, 42, 40, 41, 45, 95, 61, 43, 91, 93,
       123, 125, 124, 59, 58, 39, 34, 44, 46, 60, 62, 63, 47, 126, 96, 92 >>

\* build_charset with the lowercase letters extended first.
build_charset_lowercase_first(cfg) ==
    (IF cfg.use_lowercase THEN ByteRange(97, 122) ELSE << >>)
    \o (IF cfg.use_numbers THEN ByteRange(48, 57) ELSE << >>)
    \o (IF cfg.use_uppercase THEN ByteRange(65, 90) ELSE << >>)
    \o (IF cfg.use_symbols THEN SYMBOL_CHARS ELSE << >>)

\* build_charset: the Vec<char> extended by '0'..='9', 'a'..='z',
\* 'A'..='Z' and the symbols, for the toggles that are on.
build_charset(cfg) ==
    (IF cfg.use_numbers THEN ByteRange(48, 57) ELSE << >>)
    \o (IF cfg.use_lowercase THEN ByteRange(97, 122) ELSE << >>)
    \o (IF cfg.use_uppercase THEN ByteRange(65, 90) ELSE << >>)
    \o (IF cfg.use_symbols THEN SYMBOL_CHARS ELSE << >>)

\* u64::saturating_add.
saturating_add(a, b) ==
    LET s == U64Add(a, b)
    IN  IF s.overflow THEN U64_MAX ELSE s.val

\* `length as u32` for a usize length: the low 32 bits, as two limbs.
AsU32(len) == << len[1], len[2] >>

\* u64::saturating_pow(exp: u32).  An exponent of 64 or more saturates
\* every base but 0 and 1.
SaturatingPowU32(base, exp) ==
    IF exp[2] = 0 /\ exp[1] < 64 THEN saturating_pow(base, exp[1])
    ELSE IF base = 0 THEN U64FromNat(0)
    ELSE IF base = 1 THEN U64FromNat(1)
    ELSE U64_MAX

\* The words counted for each base word (line 959).
MUTATIONS_PER_WORD == 12

\* The loop of lines 951-953 from len on, for min_length <= max_length.
RECURSIVE EstimateLoop(_, _, _, _)
EstimateLoop(charset_size, len, max_length, total) ==
    LET t == saturating_add(total,
                            SaturatingPowU32(charset_size, AsU32(len)))
    IN  IF len = max_length THEN t
        ELSE EstimateLoop(charset_size, U64Add(len, U64FromNat(1)).val,
                          max_length, t)

\* estimate_combinations.  The lengths of cfg are usize values, as u64
\* limbs (lengths of 2^32 and more exist where usize is 64 bits wide).
estimate_combinations(cfg) ==
    LET charset_size == Len(build_charset(cfg))
        total == IF U64Leq(cfg.min_length, cfg.max_length)
                 THEN EstimateLoop(charset_size, cfg.min_length,
                                   cfg.max_length, U64FromNat(0))
                 ELSE U64FromNat(0)
        dict_count == Len(EMBEDDED_WORDLIST) + Len(cfg.custom_words)
    IN  IF cfg.use_dictionary
        THEN saturating_add(total, U64FromNat(dict_count * MUTATIONS_PER_WORD))
        ELSE total

\* The loop of try_unlock from entry i on (lines 919-939).
RECURSIVE TryUnlockFrom(_, _, _)
TryUnlockFrom(zip_data, password, i) ==
    IF i >= ArchiveLen(zip_data) THEN FALSE
    ELSE LET file == by_index_decrypt(zip_data, i, password)
         IN  IF file.tag # "File"
             THEN TryUnlockFrom(zip_data, password, i + 1)
             ELSE IF file.read.err THEN FALSE
             ELSE IF crc32fast_hash(file.read.data) = file.crc
                     /\ Len(file.read.data) = file.size
             THEN TRUE
             ELSE TryUnlockFrom(zip_data, password, i + 1)

try_unlock(zip_data, password) ==
    /\ ZipArchiveNewOk(zip_data)
    /\ TryUnlockFrom(zip_data, password, 0)

test_zip_password(zip_data, password) == try_unlock(zip_data, password)

\* The (min_length, max_length) of the configurations estimated: ranges
\* that are empty, short, that reach the saturation (94^10 and 10^20
\* exceed 2^64 - 1), and that lie around 2^32.
EstimateLengths ==
    LET USIZE_2_32_MINUS_1 == << LIMB - 1, LIMB - 1, 0, 0 >>
        USIZE_2_32 == << 0, 0, 1, 0 >>
        USIZE_2_32_PLUS_1 == << 1, 0, 1, 0 >>
    IN  { << U64FromNat(a), U64FromNat(b) >> :
            a \in {0, 1, 3}, b \in {0, 1, 2, 4} }
        \cup { << U64FromNat(9), U64FromNat(10) >>,
               << U64FromNat(10), U64FromNat(13) >>,
               << U64FromNat(18), U64FromNat(20) >>,
               << USIZE_2_32_MINUS_1, USIZE_2_32_MINUS_1 >>,
               << USIZE_2_32_MINUS_1, USIZE_2_32_PLUS_1 >>,
               << USIZE_2_32, USIZE_2_32 >>,
               << USIZE_2_32, USIZE_2_32_PLUS_1 >> }

\* The configurations estimated: every combination of the toggles.
EstimateConfigs ==
    { [ min_length |-> l[1], max_length |-> l[2],
        use_lowercase |-> t[1], use_uppercase |-> t[2],
        use_numbers |-> t[3], use_symbols |-> t[4],
        use_dictionary |-> d, custom_words |-> cw ] :
        l \in EstimateLengths, t \in [1..4 -> BOOLEAN],
        d \in BOOLEAN, cw \in {<< >>, << HI, AAA >>} }

\* The archives and the passwords of the single tests.
TestArchives ==
    { ZIP_7, ZIP_42, ZIP_AAA, ZIP_MIXED, ZIP_TWO_PASSWORDS, ZIP_EMPTY,
      NotAnArchive, Archive(<< Stored(HI) >>) }

TestPasswords == { EMPTY_PASSWORD, PW_7, PW_42, PW_3, PW_5, PW_PASSWORD1 }

ApiInit ==
    /\ pause_flag = FALSE
    /\ overflow_checks = FALSE
    /\ file_bytes = NotAnArchive
    /\ config = Config(0, 0, FALSE, FALSE, FALSE, FALSE, FALSE)
    /\ sink = << >>
    /\ pc = "api"
    /\ ret = "none"
    /\ target_entry = -1
    /\ length = 0
    /\ attempts = 0
    /\ found = FALSE
    /\ password_found = None
    /\ candidates = << >>
    /\ found_flag = FALSE
    /\ dict_attempts = 0
    /\ todo = {}
    /\ results = {}
    /\ workers = [w \in Workers |-> IdleWorker]
    /\ rpc = "off"
    /\ reports = 0
    /\ tested = 0
    /\ since_pause = [w \in Workers |-> 0]
    /\ tested_after_found = FALSE
    /\ earlier_found = FALSE
    /\ odometer = NoOdometer
    /\ api = NoApi

\* A call of estimate_combinations (the functions are pure: one call
\* per behaviour shows what every call does).
Estimate(cfg) ==
    /\ pc = "api"
    /\ api.call = "none"
    /\ api' = [NoApi EXCEPT !.call = "estimate", !.cfg = cfg,
                            !.result = estimate_combinations(cfg)]
    /\ UNCHANGED << odometer, pause_flag, overflow_checks, file_bytes,
                    config, sink, pc, ret, target_entry, length, attempts,
                    found, password_found, candidates, found_flag,
                    dict_attempts, todo, results, workers, rpc, reports,
                    tested, since_pause, tested_after_found, earlier_found >>

\* A call of test_zip_password.
TestZipPassword(zip_data, password) ==
    /\ pc = "api"
    /\ api.call = "none"
    /\ api' = [NoApi EXCEPT !.call = "test", !.file_bytes = zip_data,
                            !.password = password,
                            !.ok = test_zip_password(zip_data, password)]
    /\ UNCHANGED << odometer, pause_flag, overflow_checks, file_bytes,
                    config, sink, pc, ret, target_entry, length, attempts,
                    found, password_found, candidates, found_flag,
                    dict_attempts, todo, results, workers, rpc, reports,
                    tested, since_pause, tested_after_found, earlier_found >>

ApiNext ==
    \/ \E cfg \in EstimateConfigs : Estimate(cfg)
    \/ \E zip_data \in TestArchives, password \in TestPasswords :
           TestZipPassword(zip_data, password)

ApiSpec == ApiInit /\ [][ApiNext]_vars

\* The sizes of the four subsets, and the size of the alphabet they give.
SubsetSizes(cfg) ==
    << IF cfg.use_numbers THEN 10 ELSE 0,
       IF cfg.use_lowercase THEN 26 ELSE 0,
       IF cfg.use_uppercase THEN 26 ELSE 0,
       IF cfg.use_symbols THEN 32 ELSE 0 >>

AlphabetSize(cfg) ==
    SubsetSizes(cfg)[1] + SubsetSizes(cfg)[2]
        + SubsetSizes(cfg)[3] + SubsetSizes(cfg)[4]

\* min(2^64 - 1, n^len) for a length of any size: n^len is at least 2^64
\* when n >= 2 and len >= 64.
PowerCapped(n, len) ==
    IF len[4] = 0 /\ len[3] = 0 /\ len[2] = 0 /\ len[1] < 64
    THEN saturating_pow(n, len[1])
    ELSE IF n = 0 THEN U64FromNat(0)
    ELSE IF n = 1 THEN U64FromNat(1)
    ELSE U64_MAX

\* min(2^64 - 1, sum of n^l for l in len..max_length), len <= max_length.
RECURSIVE PowerSumCapped(_, _, _)
PowerSumCapped(n, len, max_length) ==
    IF len = max_length THEN PowerCapped(n, len)
    ELSE saturating_add(PowerCapped(n, len),
                        PowerSumCapped(n, U64Add(len, U64FromNat(1)).val,
                                       max_length))

\* min(2^64 - 1, S + D) of a configuration.
CombinationsCapped(cfg) ==
    LET S == IF U64Leq(cfg.min_length, cfg.max_length)
             THEN PowerSumCapped(AlphabetSize(cfg), cfg.min_length,
                                 cfg.max_length)
             ELSE U64FromNat(0)
        D == IF cfg.use_dictionary
             THEN (Len(EMBEDDED_WORDLIST) + Len(cfg.custom_words))
                      * MUTATIONS_PER_WORD
             ELSE 0
    IN  saturating_add(S, U64FromNat(D))

\* C15: estimate_combinations(config) is min(2^64 - 1, S + D), S the sum
\* of alphabet_size^length over the lengths of [min_length, max_length]
\* and D the dictionary words times the mutation factor when
\* use_dictionary is set; and it does not decrease when max_length grows.
C15_EstimateIsSaturatedSum ==
    api.call = "estimate" =>
        /\ api.result = CombinationsCapped(api.cfg)
        /\ \A smaller \in EstimateConfigs :
               /\ smaller = [api.cfg EXCEPT !.max_length = smaller.max_length]
               /\ U64Leq(smaller.max_length, api.cfg.max_length)
               => U64Leq(estimate_combinations(smaller), api.result)

\* The subset a byte belongs to: 1 digits, 2 lowercase, 3 uppercase,
\* 4 symbols.
SubsetRank(b) ==
    IF b \in 48..57 THEN 1
    ELSE IF b \in 97..122 THEN 2
    ELSE IF b \in 65..90 THEN 3
    ELSE 4

\* The bytes of the subsets that cfg enables.
EnabledBytes(cfg) ==
    (IF cfg.use_numbers THEN 48..57 ELSE {})
    \cup (IF cfg.use_lowercase THEN 97..122 ELSE {})
    \cup (IF cfg.use_uppercase THEN 65..90 ELSE {})
    \cup (IF cfg.use_symbols THEN Range(SYMBOLS) ELSE {})

\* C16: for every combination of the toggles the alphabet of
\* CompactCharset::new holds exactly the bytes of the enabled subsets,
\* subset after subset in the order digits, lowercase, uppercase, symbols
\* and each subset in its own order; its length is the sum of the sizes
\* of the enabled subsets and at most 94; no byte occurs twice; and it is
\* the alphabet build_charset gives to the estimator.
C16_AlphabetIsOrderedConcatenation ==
    api.call = "estimate" =>
        LET charset == CompactCharsetNew(api.cfg)
        IN  /\ Range(charset) = EnabledBytes(api.cfg)
            /\ \A i, j \in DOMAIN charset :
                   i < j => SubsetRank(charset[i]) <= SubsetRank(charset[j])
            /\ \A i, j \in DOMAIN charset :
                   i < j /\ SubsetRank(charset[i]) = SubsetRank(charset[j])
                         /\ SubsetRank(charset[i]) # 4
                       => charset[i] < charset[j]
            /\ \A i, j \in DOMAIN charset :
                   i < j /\ SubsetRank(charset[i]) = 4
                         /\ SubsetRank(charset[j]) = 4
                       => PositionIn(SYMBOL_CHARS, charset[i], 1, 32)
                              < PositionIn(SYMBOL_CHARS, charset[j], 1, 32)
            /\ Len(charset) = AlphabetSize(api.cfg)
            /\ Len(charset) <= CHARSET_CAPACITY
            /\ \A i, j \in DOMAIN charset : i # j => charset[i] # charset[j]
            /\ charset = build_charset(api.cfg)

\* The alphabet of the four subsets has been built and given to the
\* estimator.
C16_Witness ==
    /\ api.call = "estimate"
    /\ api.cfg.use_numbers /\ api.cfg.use_lowercase
    /\ api.cfg.use_uppercase /\ api.cfg.use_symbols
    /\ Len(CompactCharsetNew(api.cfg)) = CHARSET_CAPACITY
    /\ api.result = U64_MAX

\* The archive has an encrypted entry.
HasEncryptedEntry(zip_data) ==
    \E i \in DOMAIN zip_data.entries : zip_data.entries[i].encrypted

\* C18: test_zip_password returns true exactly when the password decrypts
\* every encrypted entry of the archive with matching declared size and
\* CRC32, and so agrees with the candidate test of a run, also on archives
\* that mix unencrypted and encrypted entries or hold entries encrypted
\* under different passwords.
C18_SingleTestAgreesWithRunTest ==
    api.call = "test" =>
        /\ api.ok <=> (/\ ZipArchiveNewOk(api.file_bytes)
                       /\ HasEncryptedEntry(api.file_bytes)
                       /\ OpensEveryEntry(api.file_bytes, api.password))
        /\ api.ok <=> try_unlock_ultra_safe(api.file_bytes, api.password)

\* A step of the reporter thread.
ReporterStep == rpc' # rpc /\ rpc # "off"

\* C20: in the brute-force phase the reporter is not held by the pause
\* flag: it wakes while the flag is set, and an event it emits with the
\* flag set has rate zero; at the first wake at which it reads the found
\* flag as true it exits without an event; so once the found flag is set
\* the reporter terminates.
C20_ReporterReportsPausedAndExits ==
    /\ [](pause_flag /\ rpc = "sleep" /\ reports < MaxReports
             => ENABLED R_Wake)
    /\ [][ReporterStep /\ rpc = "report" /\ pause_flag
             => /\ Len(sink') = Len(sink) + 1
                /\ sink'[Len(sink')].by = "reporter"
                /\ sink'[Len(sink')].passwords_per_second = "zero"]_vars
    /\ [][ReporterStep /\ rpc = "sleep" /\ found
             => rpc' = "exited" /\ sink' = sink]_vars
    /\ (found /\ rpc \in {"sleep", "report"}) ~> (rpc = "exited")

\* The reporter has emitted an event of rate zero and has then exited on
\* reading the found flag.
C20_Witness ==
    /\ rpc = "exited"
    /\ found
    /\ \E i \in DOMAIN sink :
           /\ sink[i].by = "reporter"
           /\ sink[i].passwords_per_second = "zero"

\* The lowest index of an entry whose encryption bit is set, or -1.
FirstWithEncryptionBit(zip_data) ==
    LET enc == {i \in 0..(ArchiveLen(zip_data) - 1) :
                   zip_data.entries[i + 1].encrypted}
    IN  IF enc = {} THEN -1 ELSE SetMin(enc)

\* The driver has reported that the archive has no encrypted file.
ReportedNoEncryptedFiles ==
    \E k \in DOMAIN sink :
        sink[k].current_password.tag = "ZIP não possui arquivos criptografados"

\* C21: on an archive that parses and has entries, the target entry of the
\* run is the lowest-index entry whose encryption bit is set, and the
\* driver reports that there are no encrypted files only when no entry
\* has the bit set.
C21_TargetIsFirstEntryWithEncryptionBit ==
    pc \notin {"idle", "api", "odometer"}
    /\ ZipArchiveNewOk(file_bytes) /\ ArchiveLen(file_bytes) > 0 =>
        /\ target_entry = FirstWithEncryptionBit(file_bytes)
        /\ ReportedNoEncryptedFiles
               => FirstWithEncryptionBit(file_bytes) = -1

\* C22: within a chunk a thread polls the found flag and the pause flag
\* every 512 candidates: it never tests more than 512 candidates in a row
\* without a poll, whatever the chunk size and across the batch flushes.
C22_PollEvery512Candidates ==
    \A w \in Workers : workers[w].since_poll <= POLL_PERIOD

\* The chunk arithmetic of one length stays within 64 bits and the chunks
\* cover the space: total + chunk_size does not wrap, num_chunks *
\* chunk_size (the end of the last chunk before the min) does not wrap
\* and is at least total.
ChunkArithmeticFits(cfg, len) ==
    LET total == saturating_pow(Len(CompactCharsetNew(cfg)), len)
        sum == U64Add(total, U64FromNat(chunk_size_of(cfg)))
        num_chunks == LengthPlan(cfg, len, FALSE).num_chunks
        covered == U64MulSmall(num_chunks, chunk_size_of(cfg))
    IN  /\ ~sum.overflow
        /\ ~covered.overflow
        /\ U64Leq(total, covered.val)

\* C28: for every length the driver starts, the chunk arithmetic stays
\* within unsigned 64 bits and the chunks cover [0, total): a length whose
\* N^L saturates at 2^64 - 1 is searched, too.
C28_ChunkArithmeticWithin64Bits ==
    pc \in {"len_pause", "par", "panicked"}
        => ChunkArithmeticFits(config, length)

\* C23: the candidate a thread tests at offset j of chunk c is
\* index_to_bytes(c * chunk_size + j); and a run that exhausts the space
\* with the dictionary off has tested as many candidates as there are
\* strings of the lengths in [min_length, max_length], each chunk being
\* handed out once, and reports that number in its last event.
C23_ChunksPartitionTheSpace ==
    /\ \A w \in Workers :
           pc = "par" /\ workers[w].pc \in {"run", "p_found", "p_pause"}
               => workers[w].pwd_buf
                      = index_to_bytes(StartIdx(config, workers[w].item)
                                           + workers[w].off,
                                       Charset, length)
    /\ RunEnded /\ ~config.use_dictionary /\ ~password_found.some
           => /\ U64FromNat(tested)
                     = SearchSpaceFrom(config, config.min_length)
              /\ U64FromNat(sink[Len(sink)].attempts)
                     = SearchSpaceFrom(config, config.min_length)

\* A thread of the pool that is inside wait_if_paused and that the pause
\* flag holds there.
HeldByPause(w) == workers[w].pc \in {"c_pause", "p_pause"} /\ pause_flag

\* C24: once a thread has confirmed a password and set the found flag in
\* the brute-force phase, the end of the run does not depend on the pause
\* flag: no thread of the pool, which find_map_any waits for, is held in
\* wait_if_paused until the host clears the flag.
C24_HitEndsRunWhateverThePauseFlag ==
    pc = "par" /\ found => \A w \in Workers : ~HeldByPause(w)

\* A thread of the pool has confirmed a password of the current length.
Confirmed ==
    results # {} \/ \E w \in Workers : workers[w].pc \in {"hit", "hit_add"}

\* A step of a run that is under way keeps the order of the stages.
StagesInSequence ==
    pc \notin {"idle", "returned"} =>
        /\ tested' # tested =>
               pc \in {"dict_par", "par"} /\ pc' = pc /\ length' = length
        /\ pc \in {"dict_par", "par"} /\ pc' # pc => AllIdle
        /\ pc' = "dict_par" /\ pc # "dict_par" =>
               rpc = "off" /\ length = 0 /\ tested = 0
        /\ length' # length =>
               \/ pc = "spawn" /\ length' = config.min_length
               \/ pc = "par" /\ results = {} /\ length' = length + 1
        /\ pc = "dict_par" /\ results # {} => pc' \in {"dict_par", "dict_hit"}
        /\ pc \in {"dict_hit", "dict_slot", "dict_emit"} =>
               /\ tested' = tested
               /\ rpc' = "off"
               /\ pc' \in {"dict_hit", "dict_slot", "dict_emit", "returned"}
        /\ pc' = "par" /\ pc # "par" =>
               ~found /\ ~password_found.some /\ length <= config.max_length
        /\ pc = "par" /\ Confirmed =>
               length' = length /\ pc' \in {"par", "finish"}

\* C25: the stages of a run come strictly in sequence, the dictionary
\* phase first and then the lengths in ascending order: candidates are
\* tested only inside a stage, a stage is left only when every closure has
\* returned, after a dictionary hit nothing more is tested and no reporter
\* is started, and once a password of the current length is confirmed no
\* further length is started.
C25_StagesStrictlyInSequence == [][StagesInSequence]_vars

\* A run over the lengths 1 and 2 has ended with a password of length 1:
\* length 2 was never started.
C25_Witness ==
    /\ RunEnded
    /\ rpc = "exited"
    /\ password_found.some
    /\ Len(password_found.val) = length
    /\ length < config.max_length
    /\ tested <= Len(Charset)

\* A step appends an event of the reporter thread to the sink.
ReporterEmits ==
    /\ Len(sink') = Len(sink) + 1
    /\ sink'[Len(sink')].by = "reporter"

\* C26: in a run that reaches the brute-force phase the driver emits its
\* last event only after it has set the found flag and the reporter thread
\* has exited, no event of the reporter follows the last event of the
\* driver, and the join completes: once the driver is at the join the
\* reporter exits, also when every length was exhausted without a hit.
C26_TerminalEventAfterReporterExit ==
    /\ [](pc = "emit" => found /\ rpc = "exited")
    /\ [][ReporterEmits => pc \notin {"emit", "returned", "idle"}]_vars
    /\ [](RunEnded /\ rpc # "off"
             => rpc = "exited" /\ sink[Len(sink)].by = "driver")
    /\ (pc = "join") ~> (rpc = "exited")

\* A run that exhausted its lengths without a hit has ended: the reporter
\* emitted an event, exited, and the last event is the driver's.
C26_Witness ==
    /\ RunEnded
    /\ ~password_found.some
    /\ rpc = "exited"
    /\ length > config.max_length
    /\ \E i \in DOMAIN sink : sink[i].by = "reporter"
    /\ sink[Len(sink)].by = "driver"
    /\ sink[Len(sink)].phase = "bruteforce"

\* The candidates a thread has tested in its chunk and not yet added to
\* the shared counter: its local count, and the candidate that hit.
Unflushed(w) ==
    IF workers[w].pc \in {"hit", "hit_add"} THEN workers[w].local_count + 1
    ELSE IF workers[w].pc \in {"run", "p_found", "p_pause", "batch", "rest"}
    THEN workers[w].local_count
    ELSE 0

RECURSIVE UnflushedUpTo(_)
UnflushedUpTo(w) == IF w = 0 THEN 0 ELSE Unflushed(w) + UnflushedUpTo(w - 1)

\* The driver is in the brute-force phase.
BruteForcePhase ==
    pc \in {"spawn", "len_head", "len_pause", "par", "finish", "join", "emit"}

\* The shared counter is behind the number of candidates tested by the
\* unflushed candidates of the threads, at most lag for each of them.
CounterLagsByAtMost(lag) ==
    BruteForcePhase =>
        /\ attempts <= tested
        /\ tested - attempts = UnflushedUpTo(NumWorkers)
        /\ \A w \in Workers : Unflushed(w) <= lag

\* At the end of the run the counter and the last event hold exactly the
\* number of candidates tested.
CounterExactAtEnd ==
    RunEnded => attempts = tested /\ sink[Len(sink)].attempts = tested

\* C27: in every state of the brute-force phase the shared attempts
\* counter is at most the number of candidates tested, and lags it by at
\* most 2048 (a whole batch, just before its flush) for each thread that is
\* inside a chunk; at the end of the run the counter equals exactly the
\* number of candidates tested, the candidate that hit included.
C27_CounterLagsByAtMostABatch ==
    CounterLagsByAtMost(BATCH_SIZE) /\ CounterExactAtEnd

\* C27 as stated: the lag is at most 2047 for each thread inside a chunk.
C27_AsStated ==
    CounterLagsByAtMost(BATCH_SIZE - 1) /\ CounterExactAtEnd

\* A thread has tested the last candidate of a batch and has not flushed
\* it yet: the counter is a whole batch behind.
C27_Witness ==
    /\ pc = "par"
    /\ \E w \in Workers :
           workers[w].pc = "batch" /\ Unflushed(w) = BATCH_SIZE
    /\ tested - attempts >= BATCH_SIZE

\* A step of a run that is under way writes the result slot.
SlotWritten ==
    pc \notin {"idle", "returned"} /\ password_found' # password_found

\* The events of the sink that report a password.
FoundEvents == {i \in DOMAIN sink : sink[i].current_password.tag = "FOUND:"}

\* The test of the phase that emitted the event accepts the password.
TestReturnedTrue(event) ==
    IF event.phase = "dictionary"
    THEN DictionaryTest(file_bytes, target_entry, event.current_password.pwd)
    ELSE try_unlock_ultra_safe(file_bytes, event.current_password.pwd)

\* C29: also when several threads confirm a password at the same time the
\* run reports exactly one: the result slot is written at most once per
\* run, by the driver and with a password a closure returned, and the last
\* event of a run with a hit is its only event with a password, which is
\* the one of the slot and one the test of its phase returned true for.
C29_OnePasswordReportedUnderRaces ==
    /\ [][SlotWritten => /\ ~password_found.some
                         /\ password_found'.some
                         /\ password_found'.val \in results
                         /\ pc \in {"par", "dict_slot"}]_vars
    /\ [](RunEnded /\ password_found.some
             => /\ FoundEvents = {Len(sink)}
                /\ sink[Len(sink)].current_password.pwd = password_found.val
                /\ TestReturnedTrue(sink[Len(sink)]))
    /\ [](RunEnded /\ ~password_found.some => FoundEvents = {})

\* A run has ended in which two threads confirmed two different passwords
\* and one of them was reported.
C29_Witness ==
    /\ RunEnded
    /\ Cardinality(results) = 2
    /\ password_found.some
    /\ password_found.val \in results
    /\ Cardinality(FoundEvents) = 1

=============================================================================
